---- MODULE Spec2Model ----
(***************************************************************************)
(* Model of the omgflux MCP server: the argument validator of              *)
(* src/src/types.ts and the FluxImageServer of src/unnamed/part_000 (the    *)
(* generate_image tool handler, the bounded cache of recent generations    *)
(* and the resource handlers that expose it).                              *)
(*                                                                         *)
(* JavaScript values are records [t, b, n, s]: t is the type tag, b the    *)
(* value of a boolean, n the value of a number in tenths (5 is 0.5, 10 is  *)
(* 1), s the characters of a string (for an array: of its elements joined  *)
(* by ",", which is all the code ever observes of an array).               *)
(***************************************************************************)
EXTENDS Integers, Sequences, FiniteSets, TLC

\* ------------------------------------------------------------------------
\* JavaScript values

JSUndefined == [t |-> "undefined", b |-> FALSE, n |-> 0, s |-> <<>>]
JSNull == [t |-> "null", b |-> FALSE, n |-> 0, s |-> <<>>]
JSBool(x) == [t |-> "boolean", b |-> x, n |-> 0, s |-> <<>>]
JSNum(x) == [t |-> "number", b |-> FALSE, n |-> x, s |-> <<>>]
JSStr(x) == [t |-> "string", b |-> FALSE, n |-> 0, s |-> x]
JSArr(x) == [t |-> "array", b |-> FALSE, n |-> 0, s |-> x]
JSObj == [t |-> "object", b |-> FALSE, n |-> 0, s |-> <<>>]

\* typeof v
TypeOf(v) ==
    CASE v.t = "undefined" -> "undefined"
      [] v.t = "null" -> "object"
      [] v.t = "boolean" -> "boolean"
      [] v.t = "number" -> "number"
      [] v.t = "string" -> "string"
      [] OTHER -> "object"

\* The truthiness an `if (v)` or a `!v` tests.
Truthy(v) ==
    CASE v.t = "undefined" -> FALSE
      [] v.t = "null" -> FALSE
      [] v.t = "boolean" -> v.b
      [] v.t = "number" -> v.n # 0
      [] v.t = "string" -> v.s # <<>>
      [] OTHER -> TRUE

Min(a, b) == IF a < b THEN a ELSE b

Digits == <<"0", "1", "2", "3", "4", "5", "6", "7", "8", "9">>

IsDigit(c) == \E i \in 1..10 : Digits[i] = c

DigitValue(c) == (CHOOSE i \in 1..10 : Digits[i] = c) - 1

IsSpace(c) == c = " "

RECURSIVE TrimStart(_)
TrimStart(s) ==
    IF s # <<>> /\ IsSpace(Head(s)) THEN TrimStart(Tail(s)) ELSE s

RECURSIVE TrimEnd(_)
TrimEnd(s) ==
    IF s # <<>> /\ IsSpace(s[Len(s)]) THEN TrimEnd(SubSeq(s, 1, Len(s) - 1)) ELSE s

\* String.prototype.trim
Trim(s) == TrimEnd(TrimStart(s))

AllDigits(s) == \A i \in 1..Len(s) : IsDigit(s[i])

\* The value of a run of decimal digits.
RECURSIVE DigitsValue(_)
DigitsValue(s) ==
    IF s = <<>> THEN 0
    ELSE DigitsValue(SubSeq(s, 1, Len(s) - 1)) * 10 + DigitValue(s[Len(s)])

NaN == [nan |-> TRUE, n |-> 0]
Num(x) == [nan |-> FALSE, n |-> x]

\* An unsigned decimal literal: digits, optionally a point and one decimal.
UnsignedToNumber(s) ==
    LET dots == {i \in 1..Len(s) : s[i] = "."}
    IN  IF dots = {} THEN
            IF s # <<>> /\ AllDigits(s) THEN Num(DigitsValue(s) * 10) ELSE NaN
        ELSE
            LET d == CHOOSE i \in dots : \A j \in dots : i <= j
                whole == SubSeq(s, 1, d - 1)
                frac == SubSeq(s, d + 1, Len(s))
            IN  IF AllDigits(whole) /\ AllDigits(frac) /\ Len(frac) <= 1
                   /\ Len(whole) + Len(frac) > 0
                THEN Num(DigitsValue(whole) * 10 + DigitsValue(frac))
                ELSE NaN

\* Number(string): white space is trimmed, the empty string is 0, a decimal
\* literal (with an optional sign) is its value, anything else is NaN.
StringToNumber(s) ==
    LET t == Trim(s)
    IN  IF t = <<>> THEN Num(0)
        ELSE IF Head(t) = "-" THEN
            LET u == UnsignedToNumber(Tail(t))
            IN  IF u.nan THEN NaN ELSE Num(0 - u.n)
        ELSE IF Head(t) = "+" THEN UnsignedToNumber(Tail(t))
        ELSE UnsignedToNumber(t)

\* Number(v)
ToNumber(v) ==
    CASE v.t = "undefined" -> NaN
      [] v.t = "null" -> Num(0)
      [] v.t = "boolean" -> IF v.b THEN Num(10) ELSE Num(0)
      [] v.t = "number" -> Num(v.n)
      [] v.t = "string" -> StringToNumber(v.s)
      [] v.t = "array" -> StringToNumber(v.s)
      [] OTHER -> NaN

\* Number.isInteger(x)
NumberIsInteger(x) == ~x.nan /\ x.n % 10 = 0

RECURSIVE NatToString(_)
NatToString(k) ==
    IF k < 10 THEN <<Digits[k + 1]>>
    ELSE NatToString(k \div 10) \o <<Digits[(k % 10) + 1]>>

\* Number.prototype.toString of a number kept in tenths.
NumberToString(x) ==
    LET a == IF x < 0 THEN 0 - x ELSE x
        body == NatToString(a \div 10)
                  \o (IF a % 10 = 0 THEN <<>> ELSE <<".", Digits[(a % 10) + 1]>>)
    IN  IF x < 0 THEN <<"-">> \o body ELSE body

\* v.toString() of a value that has the method (not null, not undefined).
toString(v) ==
    CASE v.t = "boolean" -> IF v.b THEN <<"t", "r", "u", "e">> ELSE <<"f", "a", "l", "s", "e">>
      [] v.t = "number" -> NumberToString(v.n)
      [] v.t = "string" -> v.s
      [] v.t = "array" -> v.s
      [] OTHER -> <<"[", "o", "b", "j", "e", "c", "t", " ", "O", "b", "j", "e", "c", "t", "]">>

\* The characters of a string value as one string, for the texts of replies.
RECURSIVE Join(_)
Join(s) == IF s = <<>> THEN "" ELSE Head(s) \o Join(Tail(s))

\* ------------------------------------------------------------------------
\* src/types.ts: the arguments of generate_image and their validator

\* request.params.arguments: `top` is the value itself (an object, or what a
\* caller sent in its place), the other fields are its properties, each
\* JSUndefined when the property is absent. Bare(top) has no property.
Bare(top) ==
    [top |-> top, prompt |-> JSUndefined, image_prompt |-> JSUndefined,
     image_prompt_strength |-> JSUndefined, aspect_ratio |-> JSUndefined,
     safety_tolerance |-> JSUndefined, seed |-> JSUndefined,
     output_format |-> JSUndefined, raw |-> JSUndefined,
     response_format |-> JSUndefined]

validRatios ==
    << <<"2", "1", ":", "9">>, <<"1", "6", ":", "9">>, <<"3", ":", "2">>,
       <<"4", ":", "3">>, <<"5", ":", "4">>, <<"1", ":", "1">>,
       <<"4", ":", "5">>, <<"3", ":", "4">>, <<"2", ":", "3">>,
       <<"9", ":", "1", "6">>, <<"9", ":", "2", "1">> >>

validOutputFormats == << <<"j", "p", "g">>, <<"p", "n", "g">> >>

validResponseFormats == << <<"u", "r", "l">>, <<"b", "6", "4", "_", "j", "s", "o", "n">> >>

\* Array.prototype.includes: strict equality with one of the strings.
Includes(list, v) == v.t = "string" /\ \E i \in 1..Len(list) : list[i] = v.s

isValidImageGenerationArgs(args) ==
    LET strength == ToNumber(args.image_prompt_strength)
        tolerance == ToNumber(args.safety_tolerance)
    IN  IF ~Truthy(args.top) \/ TypeOf(args.top) # "object" THEN FALSE
        ELSE IF TypeOf(args.prompt) # "string" \/ Trim(args.prompt.s) = <<>> THEN FALSE
        ELSE IF args.image_prompt # JSUndefined /\ TypeOf(args.image_prompt) # "string"
            THEN FALSE
        ELSE IF args.image_prompt_strength # JSUndefined
                /\ (strength.nan \/ strength.n < 0 \/ strength.n > 10)
            THEN FALSE
        ELSE IF args.aspect_ratio # JSUndefined /\ ~Includes(validRatios, args.aspect_ratio)
            THEN FALSE
        ELSE IF args.safety_tolerance # JSUndefined
                /\ (~NumberIsInteger(tolerance) \/ tolerance.n < 10 \/ tolerance.n > 60)
            THEN FALSE
        ELSE IF args.seed # JSUndefined /\ ~NumberIsInteger(ToNumber(args.seed)) THEN FALSE
        ELSE IF args.output_format # JSUndefined
                /\ ~Includes(validOutputFormats, args.output_format)
            THEN FALSE
        ELSE IF args.raw # JSUndefined /\ TypeOf(args.raw) # "boolean" THEN FALSE
        ELSE IF args.response_format # JSUndefined
                /\ ~Includes(validResponseFormats, args.response_format)
            THEN FALSE
        ELSE TRUE

\* ------------------------------------------------------------------------
\* handleGenerateImageTool: the form sent upstream

\* OHMYGPT_API_CONFIG.DEFAULT_PARAMS.model
DefaultModel ==
    <<"f", "l", "u", "x", "-", "1", ".", "1", "-", "p", "r", "o", "-", "u", "l", "t", "r", "a">>

\* Calling .toString() on null or undefined throws a TypeError.
HasToString(v) == v.t # "null" /\ v.t # "undefined"

\* `if (params.f) formData.append(name, params.f)`
AppendIfTruthy(name, v) == IF Truthy(v) THEN << <<name, toString(v)>> >> ELSE <<>>

\* `if (params.f !== undefined) formData.append(name, params.f.toString())`
AppendIfDefined(name, v) ==
    IF v # JSUndefined /\ HasToString(v) THEN << <<name, toString(v)>> >> ELSE <<>>

\* The statements from `new URLSearchParams()` to the last append: `threw`
\* when one of the toString calls throws, else the pairs appended, in order.
BuildFormData(params) ==
    [threw |-> \E v \in {params.image_prompt_strength, params.safety_tolerance,
                         params.seed, params.raw} :
                   v # JSUndefined /\ ~HasToString(v),
     form |-> << <<"model", DefaultModel>>, <<"prompt", params.prompt.s>> >>
                \o AppendIfTruthy("image_prompt", params.image_prompt)
                \o AppendIfDefined("image_prompt_strength", params.image_prompt_strength)
                \o AppendIfTruthy("aspect_ratio", params.aspect_ratio)
                \o AppendIfDefined("safety_tolerance", params.safety_tolerance)
                \o AppendIfDefined("seed", params.seed)
                \o AppendIfTruthy("output_format", params.output_format)
                \o AppendIfDefined("raw", params.raw)
                \o AppendIfTruthy("response_format", params.response_format)]

\* ------------------------------------------------------------------------
\* FluxImageServer: the cache, the replies and the upstream's answers

MAX_CACHED_GENERATIONS == 5

\* The most requests the model keeps suspended on the upstream call at once.
MaxInFlight == 2

\* The most successful generations the model follows.
MaxCompleted == 7

Slots == 1..MaxInFlight

VARIABLES
    recentImageGenerations, \* the cache, newest first
    pc,                     \* per slot: "idle", or "awaiting" the upstream call
    params,                 \* per slot: the arguments of the suspended call
    formData,               \* per slot: the form the suspended call posted
    posted,                 \* per slot: the POSTs the suspended call issued
    completed,              \* the generations that completed successfully
    now,                    \* the clock: the readings `new Date()` has made
    reply                   \* the last answer a handler gave

vars == <<recentImageGenerations, pc, params, formData, posted, completed, now, reply>>

\* response.data: an opaque JSON payload (an object with a url, or null).
NoData == [t |-> "undefined", url |-> ""]

\* JSON.stringify(data, null, 2)
JSONStringify(data) ==
    CASE data.t = "object" -> "{\n  \"url\": \"" \o data.url \o "\"\n}"
      [] data.t = "null" -> "null"
      [] OTHER -> "undefined"

\* An AxiosError: `response` tells whether the upstream answered, `data` is
\* the type of response.data, `dataMessage` that of response.data.message
\* ("absent", "null" or "string") and `dataMessageText` its text.
NoError ==
    [response |-> FALSE, data |-> "undefined", dataMessage |-> "absent",
     dataMessageText |-> "", message |-> ""]

\* ErrorMessage were the upstream error body never looked at.
ErrorMessageOwn(error) == error.message

\* error.response?.data?.message ?? error.message
ErrorMessage(error) ==
    IF error.response /\ error.data = "object" /\ error.dataMessage = "string"
    THEN error.dataMessageText
    ELSE error.message

\* The text of the tool-level error result.
ErrorText(error) == "OhMyGPT API error: " \o ErrorMessage(error)

NoUri == [prefix |-> "", tail |-> <<>>]

NoReply ==
    [op |-> "none", at |-> "", name |-> "", args |-> Bare(JSUndefined), uri |-> NoUri,
     kind |-> "none", code |-> "", isError |-> FALSE, text |-> "", data |-> NoData,
     error |-> NoError, posts |-> 0, resources |-> <<>>]

\* CacheInsert were the pop() forgotten.
CacheInsertNoPop(cache, generation) == <<generation>> \o cache

\* CacheInsert were the generation pushed at the end and the first one shifted out.
CacheInsertPush(cache, generation) ==
    LET pushed == Append(cache, generation)
    IN  IF Len(pushed) > MAX_CACHED_GENERATIONS THEN Tail(pushed) ELSE pushed

\* CacheInsert were the generation written over index 0 instead of unshifted.
CacheInsertOverwrite(cache, generation) ==
    IF cache = <<>> THEN <<generation>> ELSE <<generation>> \o Tail(cache)

\* unshift(generation), then pop() when the cache is longer than the cap.
CacheInsert(cache, generation) ==
    LET unshifted == <<generation>> \o cache
    IN  IF Len(unshifted) > MAX_CACHED_GENERATIONS
        THEN SubSeq(unshifted, 1, Len(unshifted) - 1)
        ELSE unshifted

\* HandleStart were the validator's verdict not looked at.
HandleStartUnchecked(args) ==
    IF BuildFormData(args).threw THEN [out |-> "TypeError", form |-> <<>>]
    ELSE [out |-> "post", form |-> BuildFormData(args).form]

\* The handler up to its await: the arguments are rejected, or building the
\* form throws, or the form is posted.
HandleStart(args) ==
    IF ~isValidImageGenerationArgs(args) THEN [out |-> "InvalidParams", form |-> <<>>]
    ELSE IF BuildFormData(args).threw THEN [out |-> "TypeError", form |-> <<>>]
    ELSE [out |-> "post", form |-> BuildFormData(args).form]

Init ==
    /\ recentImageGenerations = <<>>
    /\ pc = [s \in Slots |-> "idle"]
    /\ params = [s \in Slots |-> Bare(JSUndefined)]
    /\ formData = [s \in Slots |-> <<>>]
    /\ posted = [s \in Slots |-> 0]
    /\ completed = 0
    /\ now = 0
    /\ reply = NoReply

\* The CallToolRequestSchema handler and handleGenerateImageTool up to the
\* await of the upstream call.
CallTool(s, name, args) ==
    /\ pc[s] = "idle"
    /\ LET started == HandleStart(args)
           answer == [NoReply EXCEPT !.op = "call", !.at = "start", !.name = name,
                                     !.args = args, !.kind = "McpError"]
       IN  IF name # "generate_image" THEN
               /\ reply' = [answer EXCEPT !.args = Bare(JSUndefined),
                                          !.code = "MethodNotFound",
                                          !.text = "Unknown tool: " \o name]
               /\ UNCHANGED <<pc, params, formData, posted>>
           ELSE IF started.out = "InvalidParams" THEN
               /\ reply' = [answer EXCEPT !.code = "InvalidParams",
                                          !.text = "Invalid image generation arguments"]
               /\ UNCHANGED <<pc, params, formData, posted>>
           ELSE IF started.out = "TypeError" THEN
               /\ reply' = [answer EXCEPT !.kind = "thrown", !.code = "TypeError"]
               /\ UNCHANGED <<pc, params, formData, posted>>
           ELSE
               /\ pc' = [pc EXCEPT ![s] = "awaiting"]
               /\ params' = [params EXCEPT ![s] = args]
               /\ formData' = [formData EXCEPT ![s] = started.form]
               /\ posted' = [posted EXCEPT ![s] = 1]
               /\ UNCHANGED reply
    /\ UNCHANGED <<recentImageGenerations, completed, now>>

\* The upstream answers: the generation is cached and its payload returned.
UpstreamOk(s, data) ==
    /\ pc[s] = "awaiting"
    /\ completed < MaxCompleted
    /\ recentImageGenerations' =
           CacheInsert(recentImageGenerations,
                       [prompt |-> params[s].prompt.s, response |-> data, timestamp |-> now])
    /\ reply' = [NoReply EXCEPT !.op = "call", !.at = "resume", !.name = "generate_image",
                                !.kind = "result", !.text = JSONStringify(data),
                                !.data = data, !.posts = posted[s]]
    /\ completed' = completed + 1
    /\ now' = now + 1
    /\ pc' = [pc EXCEPT ![s] = "idle"]
    /\ params' = [params EXCEPT ![s] = Bare(JSUndefined)]
    /\ formData' = [formData EXCEPT ![s] = <<>>]
    /\ posted' = [posted EXCEPT ![s] = 0]

\* The upstream call fails with an AxiosError: a tool-level error result.
UpstreamFail(s, error) ==
    /\ pc[s] = "awaiting"
    /\ reply' = [NoReply EXCEPT !.op = "call", !.at = "resume", !.name = "generate_image",
                                !.kind = "result", !.isError = TRUE,
                                !.text = ErrorText(error), !.error = error,
                                !.posts = posted[s]]
    /\ pc' = [pc EXCEPT ![s] = "idle"]
    /\ params' = [params EXCEPT ![s] = Bare(JSUndefined)]
    /\ formData' = [formData EXCEPT ![s] = <<>>]
    /\ posted' = [posted EXCEPT ![s] = 0]
    /\ UNCHANGED <<recentImageGenerations, completed, now>>

\* ------------------------------------------------------------------------
\* The resource handlers

ImageUri(tail) == [prefix |-> "ohmygpt://images/", tail |-> tail]

\* uri.match(/^ohmygpt:\/\/images\/(\d+)$/)
UriMatches(uri) ==
    uri.prefix = "ohmygpt://images/" /\ uri.tail # <<>> /\ AllDigits(uri.tail)

\* parseInt of the digits the pattern captured.
parseInt(digits) == DigitsValue(digits)

NoGeneration == [prompt |-> <<>>, response |-> NoData, timestamp |-> 0]

\* Lookup were the index taken to count from 1.
LookupOneBased(cache, index) ==
    IF 1 <= index /\ index <= Len(cache)
    THEN [found |-> TRUE, generation |-> cache[index]]
    ELSE [found |-> FALSE, generation |-> NoGeneration]

\* Lookup were an index past the end clamped to the last record.
LookupClamped(cache, index) ==
    IF cache # <<>>
    THEN [found |-> TRUE, generation |-> cache[Min(index + 1, Len(cache))]]
    ELSE [found |-> FALSE, generation |-> NoGeneration]

\* this.recentImageGenerations[index]: undefined past the end of the array.
Lookup(cache, index) ==
    IF index < Len(cache)
    THEN [found |-> TRUE, generation |-> cache[index + 1]]
    ELSE [found |-> FALSE, generation |-> NoGeneration]

\* The ReadResourceRequestSchema handler.
ReadResource(uri) ==
    /\ LET answer == [NoReply EXCEPT !.op = "read", !.uri = uri]
           index == parseInt(uri.tail)
           got == Lookup(recentImageGenerations, index)
       IN  reply' =
               IF ~UriMatches(uri) THEN
                   [answer EXCEPT !.kind = "McpError", !.code = "InvalidRequest",
                                  !.text = "Unknown resource: " \o uri.prefix \o Join(uri.tail)]
               ELSE IF ~got.found THEN
                   [answer EXCEPT !.kind = "McpError", !.code = "InvalidRequest",
                                  !.text = "Image generation not found: "
                                               \o Join(NatToString(index))]
               ELSE
                   [answer EXCEPT !.kind = "result",
                                  !.text = JSONStringify(got.generation.response)]
    /\ UNCHANGED <<recentImageGenerations, pc, params, formData, posted, completed, now>>

\* One entry of the resource list: the generation at `index`.
Resource(generation, index) ==
    [uri |-> ImageUri(NatToString(index)),
     name |-> "Recent image: "
                 \o Join(SubSeq(generation.prompt, 1,
                                IF Len(generation.prompt) < 30
                                THEN Len(generation.prompt) ELSE 30))
                 \o (IF Len(generation.prompt) > 30 THEN "..." ELSE ""),
     mimeType |-> "application/json",
     description |-> "Image generation for: " \o Join(generation.prompt)
                        \o " (" \o Join(NatToString(generation.timestamp)) \o ")"]

\* The ListResourcesRequestSchema handler.
ListResources ==
    /\ reply' = [NoReply EXCEPT
                    !.op = "list", !.kind = "result",
                    !.resources = [i \in 1..Len(recentImageGenerations) |->
                                      Resource(recentImageGenerations[i], i - 1)]]
    /\ UNCHANGED <<recentImageGenerations, pc, params, formData, posted, completed, now>>

\* ------------------------------------------------------------------------
\* The inputs

\* {prompt: "a"}
Minimal == [Bare(JSObj) EXCEPT !.prompt = JSStr(<<"a">>)]

\* Every optional field given, each with a value the validator accepts.
Full ==
    [top |-> JSObj, prompt |-> JSStr(<<" ", "b", " ">>),
     image_prompt |-> JSStr(<<"u">>), image_prompt_strength |-> JSNum(0),
     aspect_ratio |-> JSStr(<<"1", "6", ":", "9">>), safety_tolerance |-> JSNum(60),
     seed |-> JSNum(0), output_format |-> JSStr(<<"p", "n", "g">>),
     raw |-> JSBool(FALSE), response_format |-> JSStr(<<"u", "r", "l">>)]

Fields ==
    {"prompt", "image_prompt", "image_prompt_strength", "aspect_ratio",
     "safety_tolerance", "seed", "output_format", "raw", "response_format"}

OptionalFields == Fields \ {"prompt"}

\* The values a caller may give a field (JSUndefined: the field is absent).
JSValues ==
    {JSUndefined, JSNull, JSBool(TRUE), JSBool(FALSE), JSObj,
     JSNum(-1), JSNum(0), JSNum(5), JSNum(10), JSNum(15), JSNum(60), JSNum(70),
     JSStr(<<>>), JSStr(<<" ">>), JSStr(<<"a">>), JSStr(<<" ", "a">>),
     JSStr(<<"0", ".", "5">>), JSStr(<<" ", "6">>), JSStr(<<"-", "1">>),
     JSStr(<<"1", "6", ":", "9">>), JSStr(<<"1", "6", ":", "1", "0">>),
     JSStr(<<"j", "p", "g">>), JSStr(<<"g", "i", "f">>),
     JSStr(<<"b", "6", "4", "_", "j", "s", "o", "n">>),
     JSArr(<<>>), JSArr(<<"3">>), JSArr(<<"1", ",", "2">>)}

\* Something other than an object in place of the arguments.
NonObjects ==
    {Bare(JSUndefined), Bare(JSNull), Bare(JSStr(<<"a">>)), Bare(JSNum(10)),
     Bare(JSBool(TRUE)), Bare(JSArr(<<>>)), Bare(JSObj)}

\* Minimal and Full with one field replaced by each value in turn.
AllArgs ==
    NonObjects
      \cup {[base EXCEPT ![f] = v] : base \in {Minimal, Full}, f \in Fields, v \in JSValues}

ServerArgs ==
    {Minimal, Full, Bare(JSUndefined), [Full EXCEPT !.safety_tolerance = JSNum(70)],
     [Minimal EXCEPT !.seed = JSNull]}

ToolNames == {"generate_image", "describe_image"}

Payloads == {[t |-> "object", url |-> "https://img/1"], [t |-> "null", url |-> ""]}

Errors ==
    {[NoError EXCEPT !.message = "Network Error"],
     [response |-> TRUE, data |-> "object", dataMessage |-> "string",
      dataMessageText |-> "quota exceeded", message |-> "status code 429"],
     [response |-> TRUE, data |-> "object", dataMessage |-> "string",
      dataMessageText |-> "", message |-> "status code 400"],
     [response |-> TRUE, data |-> "object", dataMessage |-> "null",
      dataMessageText |-> "", message |-> "status code 500"],
     [response |-> TRUE, data |-> "object", dataMessage |-> "absent",
      dataMessageText |-> "", message |-> "status code 502"],
     [response |-> TRUE, data |-> "string", dataMessage |-> "absent",
      dataMessageText |-> "", message |-> "status code 503"]}

Uris ==
    {ImageUri(NatToString(i)) : i \in 0..MAX_CACHED_GENERATIONS}
      \cup {ImageUri(<<"0", "1">>), ImageUri(<<>>), ImageUri(<<"1", "x">>),
            [prefix |-> "ohmygpt://prompts/", tail |-> <<"0">>]}

\* The smaller samples the concurrent server is given.
ServerPayloads == {[t |-> "object", url |-> "https://img/1"]}

ServerErrors == {[NoError EXCEPT !.message = "Network Error"]}

ServerUris == {ImageUri(<<"0">>), ImageUri(<<"5">>)}

\* ------------------------------------------------------------------------
\* The server: requests are dispatched as they arrive, each to a free slot.

FreeSlot(s) == pc[s] = "idle" /\ \A t \in Slots : t < s => pc[t] # "idle"

Next ==
    \/ \E s \in Slots, name \in ToolNames, args \in ServerArgs :
           FreeSlot(s) /\ CallTool(s, name, args)
    \/ \E s \in Slots, data \in ServerPayloads : UpstreamOk(s, data)
    \/ \E s \in Slots, error \in Errors : UpstreamFail(s, error)
    \/ \E uri \in ServerUris : ReadResource(uri)
    \/ ListResources

Spec == Init /\ [][Next]_vars

\* A server just started and its first generate_image call, given every
\* sample of arguments in turn.
NextArgs ==
    \/ \E args \in AllArgs : reply = NoReply /\ CallTool(1, "generate_image", args)
    \/ \E data \in Payloads : UpstreamOk(1, data)
    \/ \E error \in Errors : UpstreamFail(1, error)

SpecArgs == Init /\ [][NextArgs]_vars

\* The server with every sample of payload and of resource URI, its calls
\* all with the same arguments.
NextRead ==
    \/ \E s \in Slots : FreeSlot(s) /\ CallTool(s, "generate_image", Minimal)
    \/ \E s \in Slots, data \in Payloads : UpstreamOk(s, data)
    \/ \E s \in Slots, error \in ServerErrors : UpstreamFail(s, error)
    \/ \E uri \in Uris : ReadResource(uri)
    \/ ListResources

SpecRead == Init /\ [][NextRead]_vars

\* ------------------------------------------------------------------------
\* The claims

\* The generation a call suspended in slot s caches when the upstream
\* answers with `data` at clock reading `time`.
GenerationOf(s, data, time) ==
    [prompt |-> params[s].prompt.s, response |-> data, timestamp |-> time]

\* A step in which the call suspended in slot s completes successfully.
Succeeds(s) == pc[s] = "awaiting" /\ pc'[s] = "idle" /\ completed' = completed + 1

\* A step in which the upstream call of the call suspended in slot s fails.
Fails(s) == pc[s] = "awaiting" /\ pc'[s] = "idle" /\ completed' = completed

\* A step in which a handler answers without having suspended.
Answers(op) == reply' # reply /\ reply'.op = op /\ reply'.at # "resume"

\* C1: in every reachable state the cache holds min(N, 5) generations, N
\* the number of generate_image calls that completed successfully so far.
C1_LengthIsMinOfCompletedAndCap ==
    Len(recentImageGenerations) = Min(completed, MAX_CACHED_GENERATIONS)

\* C1 witness: more calls completed than the cap, the cache is full, and a
\* further call is in flight.
C1_Witness ==
    /\ completed > MAX_CACHED_GENERATIONS
    /\ Len(recentImageGenerations) = MAX_CACHED_GENERATIONS
    /\ \E s \in Slots : pc[s] = "awaiting"

\* C2: a successful call puts its record {prompt, payload, timestamp} at
\* index 0 and moves the record at index i to index i + 1 unchanged, the
\* record at index 4 of a full cache being dropped; nothing else changes the
\* cache, which is always ordered newest first.
C2_InsertAtFrontEvictOldest ==
    /\ [][\A s \in Slots : Succeeds(s) =>
            /\ recentImageGenerations'[1] = GenerationOf(s, reply'.data, now)
            /\ Len(recentImageGenerations')
                   = Min(Len(recentImageGenerations) + 1, MAX_CACHED_GENERATIONS)
            /\ \A i \in 1..(Len(recentImageGenerations') - 1) :
                   recentImageGenerations'[i + 1] = recentImageGenerations[i]]_vars
    /\ [][completed' = completed => recentImageGenerations' = recentImageGenerations]_vars
    /\ [](\A i, j \in 1..Len(recentImageGenerations) :
            i < j => recentImageGenerations[i].timestamp > recentImageGenerations[j].timestamp)

\* C2 witness: the sixth and later insertions have evicted the oldest
\* records, and the two newest records differ in their prompts.
C2_Witness ==
    /\ completed > MAX_CACHED_GENERATIONS
    /\ Len(recentImageGenerations) = MAX_CACHED_GENERATIONS
    /\ recentImageGenerations[MAX_CACHED_GENERATIONS].timestamp
           = completed - MAX_CACHED_GENERATIONS
    /\ recentImageGenerations[1].prompt # recentImageGenerations[2].prompt

\* C3: a generate_image call whose arguments the validator rejects ends
\* with the protocol-level error InvalidParams, posts nothing upstream and
\* leaves the cache unchanged.
C3_RejectedCallIsInvalidParams ==
    /\ [][(Answers("call") /\ reply'.name = "generate_image"
             /\ ~isValidImageGenerationArgs(reply'.args)) =>
            /\ reply'.kind = "McpError"
            /\ reply'.code = "InvalidParams"
            /\ UNCHANGED <<recentImageGenerations, pc, params, formData, posted>>]_vars
    /\ [](\A s \in Slots : pc[s] = "awaiting" => isValidImageGenerationArgs(params[s]))

\* C3 witness: a call was rejected while the cache held generations and
\* another call was in flight.
C3_Witness ==
    /\ reply.op = "call" /\ reply.code = "InvalidParams"
    /\ ~isValidImageGenerationArgs(reply.args)
    /\ recentImageGenerations # <<>>
    /\ \E s \in Slots : pc[s] = "awaiting"

\* The upstream error body carries a message.
BodyHasMessage(error) ==
    error.response /\ error.data = "object" /\ error.dataMessage = "string"

\* C4: when the upstream call fails, the call returns a tool-level result
\* with isError set whose text carries the message of the upstream error
\* body if there is one and else the error's own message; nothing is thrown,
\* the cache is unchanged and the slot is free for later requests.
C4_UpstreamFailureIsToolError ==
    [][\A s \in Slots : Fails(s) =>
         /\ reply'.op = "call" /\ reply'.kind = "result" /\ reply'.isError
         /\ reply'.text = "OhMyGPT API error: "
                \o (IF BodyHasMessage(reply'.error)
                    THEN reply'.error.dataMessageText
                    ELSE reply'.error.message)
         /\ recentImageGenerations' = recentImageGenerations
         /\ \A t \in Slots \ {s} : pc'[t] = pc[t] /\ params'[t] = params[t]]_vars

\* C4 witness: an upstream failure with a structured body was answered with
\* the body's message, the cache holding generations.
C4_Witness ==
    /\ reply.op = "call" /\ reply.isError /\ BodyHasMessage(reply.error)
    /\ reply.text = "OhMyGPT API error: quota exceeded"
    /\ recentImageGenerations # <<>>

\* C5: reading ohmygpt://images/i with i below the cache length returns the
\* formatted payload of the record at position i; reading index 0 right
\* after a successful generation returns the text that call returned.
C5_ReadReturnsPayloadAtIndex ==
    /\ [][Answers("read") =>
            \A i \in 0..(Len(recentImageGenerations) - 1) :
                reply'.uri = ImageUri(NatToString(i)) =>
                    /\ reply'.kind = "result"
                    /\ reply'.text = JSONStringify(recentImageGenerations[i + 1].response)]_vars
    /\ [][(/\ reply.op = "call" /\ reply.kind = "result" /\ ~reply.isError
           /\ Answers("read") /\ reply'.uri = ImageUri(<<"0">>)) =>
            /\ reply'.kind = "result"
            /\ reply'.text = reply.text
            /\ reply'.text = JSONStringify(reply.data)]_vars

\* C5 witness: index 2 was read and returned the payload of the third
\* record, which differs from the newest one.
C5_Witness ==
    /\ reply.op = "read" /\ reply.kind = "result" /\ reply.uri = ImageUri(<<"2">>)
    /\ Len(recentImageGenerations) > 2
    /\ reply.text = JSONStringify(recentImageGenerations[3].response)
    /\ recentImageGenerations[3].response # recentImageGenerations[1].response

\* C6: reading ohmygpt://images/i with i at or past the cache length is
\* answered with a not-found error, and leaves the cache unchanged.
C6_ReadPastEndIsNotFound ==
    [][Answers("read") =>
         /\ recentImageGenerations' = recentImageGenerations
         /\ \A i \in Len(recentImageGenerations)..MAX_CACHED_GENERATIONS :
                reply'.uri = ImageUri(NatToString(i)) =>
                    /\ reply'.kind = "McpError"
                    /\ reply'.code = "InvalidRequest"
                    /\ reply'.text = "Image generation not found: " \o Join(NatToString(i))]_vars

\* C6 witness: index 5 was read with 3 records cached and was not found.
C6_Witness ==
    /\ Len(recentImageGenerations) = 3
    /\ reply.op = "read" /\ reply.uri = ImageUri(<<"5">>)
    /\ reply.kind = "McpError"

\* C7 as claimed: while a generate_image call stays suspended on the
\* upstream call, the cache does not change.
C7_NoMutationWhileSuspended ==
    [][(\E s \in Slots : pc[s] = "awaiting" /\ pc'[s] = "awaiting") =>
         recentImageGenerations' = recentImageGenerations]_vars

\* C7 amended: while a generate_image call stays suspended, the cache
\* changes only by another generate_image call completing successfully,
\* which puts its record in front of the cache as it was and cuts it to 5.
C7_OnlyOtherCompletionsMutate ==
    [][\A s \in Slots :
         (/\ pc[s] = "awaiting" /\ pc'[s] = "awaiting"
          /\ recentImageGenerations' # recentImageGenerations) =>
            \E t \in Slots \ {s} :
                /\ Succeeds(t)
                /\ recentImageGenerations'
                       = SubSeq(<<GenerationOf(t, reply'.data, now)>> \o recentImageGenerations,
                                1, Min(Len(recentImageGenerations) + 1,
                                       MAX_CACHED_GENERATIONS))]_vars

\* C7 witness: the call in slot 2, dispatched while slot 1 was busy, is
\* still suspended after the call in slot 1 completed and was cached.
C7_Witness ==
    /\ pc[1] = "idle" /\ pc[2] = "awaiting"
    /\ reply.op = "call" /\ reply.at = "resume" /\ ~reply.isError
    /\ recentImageGenerations # <<>>
    /\ recentImageGenerations[1].response = reply.data

\* A value the claim of C8 counts as numeric: a number, or text that
\* parses as one.
IsNumeric(v) ==
    \/ v.t = "number"
    \/ v.t = "string" /\ Trim(v.s) # <<>> /\ ~StringToNumber(v.s).nan

\* The inputs C8 says are accepted.
ClaimedValid(args) ==
    /\ args.top.t \in {"object", "array"}
    /\ args.prompt.t = "string" /\ Trim(args.prompt.s) # <<>>
    /\ args.image_prompt # JSUndefined => args.image_prompt.t = "string"
    /\ args.image_prompt_strength # JSUndefined =>
           /\ IsNumeric(args.image_prompt_strength)
           /\ ToNumber(args.image_prompt_strength).n \in 0..10
    /\ args.aspect_ratio # JSUndefined => Includes(validRatios, args.aspect_ratio)
    /\ args.safety_tolerance # JSUndefined =>
           /\ IsNumeric(args.safety_tolerance)
           /\ ToNumber(args.safety_tolerance).n \in {10, 20, 30, 40, 50, 60}
    /\ args.seed # JSUndefined =>
           IsNumeric(args.seed) /\ ToNumber(args.seed).n % 10 = 0
    /\ args.output_format # JSUndefined => Includes(validOutputFormats, args.output_format)
    /\ args.raw # JSUndefined => args.raw.t = "boolean"
    /\ args.response_format # JSUndefined =>
           Includes(validResponseFormats, args.response_format)

\* C8 as claimed: the validator accepts an input exactly when every rule
\* holds, and coerces no non-numeric value into an accepted number.
C8_AcceptsExactlyTheValid ==
    /\ (reply.op = "call" /\ reply.at = "start") =>
           (reply.code = "InvalidParams" <=> ~ClaimedValid(reply.args))
    /\ \A s \in Slots : pc[s] = "awaiting" => ClaimedValid(params[s])

\* The values the form holds under key `name`.
FormValues(form, name) == {form[i][2] : i \in {j \in 1..Len(form) : form[j][1] = name}}

\* C9 as claimed: the form sent upstream holds the model identifier, the
\* prompt, each optional field present in the request as its string form,
\* and no optional field absent from it.
C9_FormHoldsExactlyThePresentFields ==
    \A s \in Slots : pc[s] = "awaiting" =>
        /\ FormValues(formData[s], "model") = {DefaultModel}
        /\ FormValues(formData[s], "prompt") = {params[s].prompt.s}
        /\ \A f \in OptionalFields :
               FormValues(formData[s], f)
                   = IF params[s][f] = JSUndefined THEN {} ELSE {toString(params[s][f])}

\* C10 as claimed: every call whose arguments the validator accepts issues
\* exactly one upstream POST; nothing fails between validation and the send.
C10_AcceptedCallPostsOnce ==
    /\ (reply.op = "call" /\ reply.at = "start" /\ reply.name = "generate_image"
          /\ isValidImageGenerationArgs(reply.args)) => FALSE
    /\ \A s \in Slots : pc[s] = "awaiting" => posted[s] = 1
    /\ (reply.op = "call" /\ reply.at = "resume") => reply.posts = 1

====
